---- MODULE Spec2Model ----
(***************************************************************************)
(* The two calculator programs of example_files: test.c (program 1) and    *)
(* test2.c (program 2).  Each is one main() that prompts for two ints,     *)
(* reads them with scanf("%d"), computes sum, difference and product as    *)
(* int, the quotient as float when the divisor is not zero, and prints a   *)
(* report.  A state holds, per program, the line about to execute, the     *)
(* locals, the set of locals written so far, the set of locals whose       *)
(* value is open (an uninitialized stack slot, or computed from one), the  *)
(* read position in stdin and the transcript of I/O calls made.  The two   *)
(* programs run side by side as independent processes on the same stdin    *)
(* contents.                                                               *)
(***************************************************************************)
EXTENDS Integers, Sequences, FiniteSets, TLC

VARIABLES input, pos, pc, mem, assigned, unknown, io, status

vars == <<input, pos, pc, mem, assigned, unknown, io, status>>

(***************************************************************************)
(* int: 32-bit two's complement.                                           *)
(***************************************************************************)
INT_MAX == 2147483647

INT_MIN == -INT_MAX - 1

\* Operands the model feeds in: every int of magnitude up to SmallMag, the
\* operands of the documented scenarios (10, 5), (7, 0), (7, 2) and (-4, 2),
\* the two ends of the int range, and values at which int arithmetic leaves
\* the range (46341 * 46341 > INT_MAX) or float loses integer precision
\* (16777217 = 2^24 + 1).
SmallMag == 5

Scenario == {-4, 5, 7, 10}

Extremes == {INT_MIN, INT_MAX, 46341, 16777217}

Operands == (-SmallMag .. SmallMag) \cup Scenario \cup Extremes

\* a + b in int.  Overflow is undefined in C; what the builds of these
\* programs produce (gcc, -O0 to -O3) is the machine's add, which wraps
\* modulo 2^32.
AddInt(a, b) ==
    IF a > 0 /\ b > 0 /\ a > INT_MAX - b
    THEN (a - INT_MAX - 1) + (b - INT_MAX - 1)
    ELSE IF a < 0 /\ b < 0 /\ a < INT_MIN - b
         THEN (a + INT_MAX + 1) + (b + INT_MAX + 1)
         ELSE a + b

\* a - b in int, wrapping modulo 2^32.
SubInt(a, b) ==
    IF b = INT_MIN
    THEN AddInt(AddInt(a, INT_MAX), 1)
    ELSE AddInt(a, -b)

\* a * b in int, wrapping modulo 2^32.  The operands are split into 16-bit
\* halves (a = ah * 2^16 + al, 0 <= al < 2^16) so that no partial product
\* needs more than 31 bits; the result is reassembled from its two 16-bit
\* halves as a two's complement int.
MulInt(a, b) ==
    LET ah   == a \div 65536
        al   == a % 65536
        bh   == b \div 65536
        bl   == b % 65536
        mid  == (((ah * bl) % 65536) + ((al * bh) % 65536)) % 65536
        t    == (al \div 256) * bl
        w    == (t % 256) * 256 + (al % 256) * bl
        lo16 == w % 65536
        hi16 == (mid + (t \div 256) + (w \div 65536)) % 65536
    IN  IF hi16 >= 32768
        THEN (hi16 - 65536) * 65536 + lo16
        ELSE hi16 * 65536 + lo16

(***************************************************************************)
(* float: IEEE 754 single precision, round to nearest, ties to even.  A    *)
(* value is [neg, m, e] and stands for (-1)^neg * m * 2^e, with m = 0 for  *)
(* zero, 2^23 <= m < 2^24 for a normal number and m < 2^23, e = -149 for a *)
(* subnormal one; e = ExpSpecial marks an infinity (m = 2^23) or a NaN     *)
(* (m > 2^23).  The quotients of two ints lie between 2^-31 and 2^31, far  *)
(* from the subnormal and the infinite ranges, which only the bits of a    *)
(* never-assigned float can show.                                          *)
(***************************************************************************)
MantBits == 24

\* The exponent field is 8 bits wide, biased by 127; its largest value
\* marks the infinities and NaNs.
ExpBias == 2^7 - 1

ExpSpecial == (2^8 - 1) - ExpBias - (MantBits - 1)

\* The float whose 32 bits are the sign bit neg and the 31 bits low.
FromBits(neg, low) ==
    LET E == low \div 2^(MantBits - 1)
        F == low % 2^(MantBits - 1)
    IN  IF E = 0 THEN [neg |-> neg, m |-> F, e |-> 1 - ExpBias - (MantBits - 1)]
        ELSE [neg |-> neg, m |-> 2^(MantBits - 1) + F, e |-> E - ExpBias - (MantBits - 1)]

RECURSIVE BitLen(_)
BitLen(n) == IF n = 0 THEN 0 ELSE 1 + BitLen(n \div 2)

\* q or q + 1: q rounded by the remainder r of a division by 2 * half
\* (twiceR = 2 * r against d = 2 * half), ties to the even q.
RoundEven(q, twiceR, d) ==
    IF twiceR > d \/ (twiceR = d /\ q % 2 = 1) THEN q + 1 ELSE q

\* (float)a for an int a: exact up to 2^24, rounded to 24 bits above.
IntToFloat(a) ==
    IF a = 0 THEN [neg |-> FALSE, m |-> 0, e |-> 0]
    ELSE IF a = INT_MIN THEN [neg |-> TRUE, m |-> 2^(MantBits - 1), e |-> 8]
    ELSE LET n  == IF a < 0 THEN -a ELSE a
             bl == BitLen(n)
         IN  IF bl <= MantBits
             THEN [neg |-> a < 0, m |-> n * 2^(MantBits - bl), e |-> bl - MantBits]
             ELSE LET k  == bl - MantBits
                      q  == n \div 2^k
                      r  == n % 2^k
                      m0 == RoundEven(q, r, 2^(k - 1))
                  IN  IF m0 = 2^MantBits
                      THEN [neg |-> a < 0, m |-> 2^(MantBits - 1), e |-> k + 1]
                      ELSE [neg |-> a < 0, m |-> m0, e |-> k]

\* k more quotient bits by long division by d: from qr = <<quotient so far,
\* remainder>> (remainder < d < 2^24, k <= 7, so nothing leaves 31 bits).
DivStep(qr, d, k) ==
    <<qr[1] * 2^k + (qr[2] * 2^k) \div d, (qr[2] * 2^k) % d>>

\* The first 24 significant bits of n / d and the remainder left, for
\* 2^23 <= n, d < 2^24: 1 and 23 more bits when n >= d, else 24 bits.
DivBits(n, d) ==
    IF n >= d
    THEN DivStep(DivStep(DivStep(DivStep(<<1, n - d>>, d, 7), d, 7), d, 7), d, 2)
    ELSE DivStep(DivStep(DivStep(DivStep(<<0, n>>, d, 7), d, 7), d, 7), d, 3)

\* x / y in float, y not zero: the exact quotient rounded to 24 bits.
FloatDiv(x, y) ==
    IF x.m = 0 THEN [neg |-> x.neg # y.neg, m |-> 0, e |-> 0]
    ELSE LET qr == DivBits(x.m, y.m)
             ex == x.e - y.e - (IF x.m >= y.m THEN MantBits - 1 ELSE MantBits)
             m0 == RoundEven(qr[1], 2 * qr[2], y.m)
         IN  IF m0 = 2^MantBits
             THEN [neg |-> x.neg # y.neg, m |-> 2^(MantBits - 1), e |-> ex + 1]
             ELSE [neg |-> x.neg # y.neg, m |-> m0, e |-> ex]

\* The decimal digits of a natural number, most significant first.
RECURSIVE Digits(_)
Digits(n) == IF n < 10 THEN <<n>> ELSE Append(Digits(n \div 10), n % 10)

\* The text a numeric conversion writes: a sign, the digits before the point
\* and the digits after it, or a sign and a word ("inf", "nan") with no
\* digits.
Number(neg, int, frac) == [neg |-> neg, int |-> int, frac |-> frac, word |-> ""]

Word(neg, word) == [neg |-> neg, int |-> <<>>, frac |-> <<>>, word |-> word]

\* The digits of 2 * n + c for the natural number with digits ds, c <= 1.
RECURSIVE Doubled(_, _)
Doubled(ds, c) ==
    IF ds = <<>> THEN (IF c = 0 THEN <<>> ELSE <<c>>)
    ELSE LET v == 2 * ds[Len(ds)] + c
         IN  Append(Doubled(SubSeq(ds, 1, Len(ds) - 1), v \div 10), v % 10)

\* The digits of n * 2^k for the natural number with digits ds.
RECURSIVE TimesPow2(_, _)
TimesPow2(ds, k) == IF k = 0 THEN ds ELSE TimesPow2(Doubled(ds, 0), k - 1)

\* printf's "%d" of an int: the sign and the decimal digits, no fraction.
FormatD(n) ==
    IF n = INT_MIN
    THEN Number(TRUE, Append(Digits(-(n \div 10) - 1), 10 - (n % 10)), <<>>)
    ELSE Number(n < 0, Digits(IF n < 0 THEN -n ELSE n), <<>>)

\* The largest exponent of (float)a for an int a: |a| <= 2^31 = 2^23 * 2^8.
MaxIntExp == 32 - MantBits

\* printf's "%.2f" of a float (promoted to double, which is exact): the
\* sign, the digits before the point and the two after it, of the exact
\* binary value rounded to hundredths, ties to even.  -0.0 prints "-0.00";
\* an infinity prints "inf" and a NaN "nan", with their sign.  An integral
\* value up to 2^31 is written from m * 2^(e - 1), which fits an int, as
\* the digits of its fifth followed by the last digit; a larger one digit
\* by digit.
FormatF2(f) ==
    IF f.e = ExpSpecial
    THEN Word(f.neg, IF f.m = 2^(MantBits - 1) THEN "inf" ELSE "nan")
    ELSE IF f.m = 0 THEN Number(f.neg, <<0>>, <<0, 0>>)
    ELSE IF f.e = 0 THEN Number(f.neg, Digits(f.m), <<0, 0>>)
    ELSE IF f.e > MaxIntExp THEN Number(f.neg, TimesPow2(Digits(f.m), f.e), <<0, 0>>)
    ELSE IF f.e > 0
         THEN LET v2 == f.m * 2^(f.e - 1)
              IN  Number(f.neg, Append(Digits(v2 \div 5), 2 * (v2 % 5)), <<0, 0>>)
         ELSE LET k == -f.e
                  n == f.m * 100
                  h == IF k >= 32 THEN 0
                       ELSE LET half == 2^(k - 1)
                                q    == (n \div half) \div 2
                                r    == n - (q * 2) * half
                            IN  RoundEven(q, r, half)
              IN  Number(f.neg, Digits(h \div 100), <<(h \div 10) % 10, h % 10>>)

(***************************************************************************)
(* The environment: stdin holds up to two whitespace-separated tokens and  *)
(* then ends.  A token is an int, a sign with no digit after it ("-" or    *)
(* "+"), or text that cannot begin an int ("abc").  Both programs are      *)
(* started on the same contents.                                           *)
(***************************************************************************)
IntTok(n) == [kind |-> "int", val |-> n]

SignTok == [kind |-> "sign", val |-> 0]

BadTok == [kind |-> "text", val |-> 0]

Tokens == {IntTok(n) : n \in Operands} \cup {SignTok, BadTok}

\* The contents of stdin the model starts from: every pair of operands, and
\* every input of up to two tokens drawn from a zero and a non-zero operand,
\* the sign and the text, which covers each way a read can fail (on the
\* first call, on the second, on both; by end of input, by a sign, by text)
\* and each read that can succeed next to it.
Inputs ==
    [1..2 -> {IntTok(n) : n \in Operands}]
        \cup UNION {[1..n -> {IntTok(0), IntTok(7), SignTok, BadTok}] : n \in 0..2}

Progs == {1, 2}

\* Entries of the transcript io[p]: the calls of printf and scanf in the
\* order they were made.  A printf entry carries the format and the text
\* each conversion wrote ([neg, int, frac]: sign, digits before the point,
\* digits after it); a scanf entry the variable read into and the return
\* value.
Printed(fmt, args) == [fmt |-> fmt, args |-> args, op |-> "printf"]

Scanned(var, ret) == [fmt |-> "%d", args |-> <<var, ret>>, op |-> "scanf"]

\* The locals are declared without initializer: when main is entered each
\* holds what its stack slot held before, which is any bit pattern and
\* changes from run to run and from build to build.  The model does not
\* enumerate slot contents; it leaves such a value open.  unknown[p] is the
\* set of p's locals whose value is open: every local on entry, until the
\* program stores a value that does not depend on an open one.  The one
\* thing the program's control depends on in an open value is whether num2
\* is zero, so main is entered in one of two frames: num2's slot holds 0
\* (mem.num2 = 0, a value like any other), or it holds some int other than
\* zero (num2 is open, and mem.num2 = 1 stands for every such int).  For
\* every other open local mem holds a stand-in that no result depends on.
Locals1(zero) ==
    [num1 |-> 0, num2 |-> IF zero THEN 0 ELSE 1, sum |-> 0, difference |-> 0,
     product |-> 0, quotient |-> FromBits(FALSE, 0)]

Locals2(zero) ==
    [num1 |-> 0, num2 |-> IF zero THEN 0 ELSE 1, sum |-> 0, difference |-> 0,
     product |-> 0, division |-> FromBits(FALSE, 0)]

\* The locals that are open on entry, in test.c and in test2.c.
Open1(zero) ==
    {"num1", "sum", "difference", "product", "quotient"}
        \cup (IF zero THEN {} ELSE {"num2"})

Open2(zero) ==
    {"num1", "sum", "difference", "product", "division"}
        \cup (IF zero THEN {} ELSE {"num2"})

\* What a conversion of an open value writes: some text of that conversion,
\* recorded as the conversion itself.  AnyD stands for every text "%d" can
\* write, AnyF for every text "%.2f" can write.
AnyD == Word(FALSE, "%d")

AnyF == Word(FALSE, "%.2f")

\* The text "%d" writes for p's int local var, and "%.2f" for its float.
IntText(p, var) == IF var \in unknown[p] THEN AnyD ELSE FormatD(mem[p][var])

FloatText(p, var) == IF var \in unknown[p] THEN AnyF ELSE FormatF2(mem[p][var])

Goto(p, next) == pc' = [pc EXCEPT ![p] = next]

\* printf(...) at line `at`.
Printf(p, at, entry, next) ==
    /\ pc[p] = at
    /\ io' = [io EXCEPT ![p] = Append(@, entry)]
    /\ Goto(p, next)
    /\ UNCHANGED <<input, pos, mem, assigned, unknown, status>>

\* scanf("%d", &var) at line `at`.  On an int token: consume it, store it
\* and return 1.  On a sign with no digit after it: consume the sign, store
\* nothing and return 0.  On text that cannot begin an int: consume nothing,
\* store nothing and return 0.  At the end of input: store nothing and
\* return EOF (-1).  When nothing is stored var keeps what it held, open
\* or not.
Scanf(p, at, var, next) ==
    /\ pc[p] = at
    /\ IF pos[p] < Len(input) /\ input[pos[p] + 1].kind = "int"
       THEN /\ mem' = [mem EXCEPT ![p][var] = input[pos[p] + 1].val]
            /\ assigned' = [assigned EXCEPT ![p] = @ \cup {var}]
            /\ unknown' = [unknown EXCEPT ![p] = @ \ {var}]
            /\ pos' = [pos EXCEPT ![p] = @ + 1]
            /\ io' = [io EXCEPT ![p] = Append(@, Scanned(var, 1))]
       ELSE /\ UNCHANGED <<mem, assigned, unknown>>
            /\ IF pos[p] = Len(input)
               THEN /\ io' = [io EXCEPT ![p] = Append(@, Scanned(var, -1))]
                    /\ UNCHANGED pos
               ELSE /\ io' = [io EXCEPT ![p] = Append(@, Scanned(var, 0))]
                    /\ pos' = [pos EXCEPT ![p] =
                                 IF input[pos[p] + 1].kind = "sign" THEN @ + 1 ELSE @]
    /\ Goto(p, next)
    /\ UNCHANGED <<input, status>>

\* var = val; at line `at`, where val is computed from the locals in
\* `from`.  If one of them is open the model leaves the value stored open
\* too (also where the arithmetic would pin it, as in x * 0), and mem keeps
\* its stand-in for var.
Assign(p, at, var, val, from, next) ==
    /\ pc[p] = at
    /\ IF from \cap unknown[p] = {}
       THEN /\ mem' = [mem EXCEPT ![p][var] = val]
            /\ unknown' = [unknown EXCEPT ![p] = @ \ {var}]
       ELSE /\ UNCHANGED mem
            /\ unknown' = [unknown EXCEPT ![p] = @ \cup {var}]
    /\ assigned' = [assigned EXCEPT ![p] = @ \cup {var}]
    /\ Goto(p, next)
    /\ UNCHANGED <<input, pos, io, status>>

\* An if whose branch is not taken: control moves on, nothing changes.
Skip(p, at, next) ==
    /\ pc[p] = at
    /\ Goto(p, next)
    /\ UNCHANGED <<input, pos, mem, assigned, unknown, io, status>>

\* return code; from main at line `at`: the process exits with that status.
Return(p, at, code, next) ==
    /\ pc[p] = at
    /\ status' = [status EXCEPT ![p] = <<code>>]
    /\ Goto(p, next)
    /\ UNCHANGED <<input, pos, mem, assigned, unknown, io>>

(***************************************************************************)
(* Program 1: test.c.  pc[1] is the source line about to execute; T1_End   *)
(* is main's closing brace, reached by the return.                         *)
(***************************************************************************)
T1_Start == 10

T1_End == 42

T1_Title == Printf(1, 10, Printed("=== Simple Calculator Program ===\n", <<>>), 13)

T1_Prompt1 == Printf(1, 13, Printed("Enter the first number: ", <<>>), 14)

\* Mutant: control goes from the first read straight to the computations.
T1_Read1_SkipsSecond == Scanf(1, 14, "num1", 20)

T1_Read1 == Scanf(1, 14, "num1", 16)

T1_Prompt2 == Printf(1, 16, Printed("Enter the second number: ", <<>>), 17)

T1_Read2 == Scanf(1, 17, "num2", 20)

T1_Sum ==
    Assign(1, 20, "sum", AddInt(mem[1].num1, mem[1].num2), {"num1", "num2"}, 21)

\* Mutant: the difference is stored into sum.
T1_Difference_IntoSum ==
    Assign(1, 21, "sum", SubInt(mem[1].num1, mem[1].num2), {"num1", "num2"}, 22)

T1_Difference ==
    Assign(1, 21, "difference", SubInt(mem[1].num1, mem[1].num2), {"num1", "num2"}, 22)

T1_Product ==
    Assign(1, 22, "product", MulInt(mem[1].num1, mem[1].num2), {"num1", "num2"}, 25)

\* Mutant: the guard of the computation is num2 > 0.
T1_DivisorNonZero_Positive == mem[1].num2 > 0

\* if (num2 != 0) at line 25.
T1_DivisorNonZero == mem[1].num2 # 0

\* a / b in int (truncating toward zero), b not zero.
TruncDiv(a, b) ==
    IF b = INT_MIN THEN (IF a = INT_MIN THEN 1 ELSE 0)
    ELSE IF a = INT_MIN
         THEN IF b = 1 \/ b = -1 THEN INT_MIN
              ELSE LET d == IF b < 0 THEN -b ELSE b
                       q == (INT_MAX \div d) + (IF INT_MAX % d = d - 1 THEN 1 ELSE 0)
                   IN  IF b > 0 THEN -q ELSE q
         ELSE LET q == (IF a < 0 THEN -a ELSE a) \div (IF b < 0 THEN -b ELSE b)
              IN  IF (a < 0) # (b < 0) THEN -q ELSE q

\* Mutant: the cast applies to the int quotient, quotient = (float)(num1 / num2).
T1_Quotient_Truncating ==
    IF T1_DivisorNonZero
    THEN Assign(1, 25, "quotient", IntToFloat(TruncDiv(mem[1].num1, mem[1].num2)),
                {"num1", "num2"}, 30)
    ELSE Skip(1, 25, 30)

\* quotient = (float)num1 / num2: num1 is cast to float, num2 is converted
\* to float by the usual arithmetic conversions, and the two floats x and y
\* are divided.
T1_Quotient ==
    /\ pc[1] = 25
    /\ IF T1_DivisorNonZero
       THEN \E x \in {IntToFloat(mem[1].num1)}, y \in {IntToFloat(mem[1].num2)} :
               Assign(1, 25, "quotient", FloatDiv(x, y), {"num1", "num2"}, 30)
       ELSE Skip(1, 25, 30)

T1_Header == Printf(1, 30, Printed("\n=== Results ===\n", <<>>), 31)

T1_PrintSum ==
    Printf(1, 31, Printed("Addition: %d + %d = %d\n",
                          <<IntText(1, "num1"), IntText(1, "num2"),
                            IntText(1, "sum")>>), 32)

T1_PrintDifference ==
    Printf(1, 32, Printed("Subtraction: %d - %d = %d\n",
                          <<IntText(1, "num1"), IntText(1, "num2"),
                            IntText(1, "difference")>>), 33)

T1_PrintProduct ==
    Printf(1, 33, Printed("Multiplication: %d × %d = %d\n",
                          <<IntText(1, "num1"), IntText(1, "num2"),
                            IntText(1, "product")>>), 35)

\* Mutant: the quotient line is printed without a test.
T1_QuotientPrinted_Always == TRUE

\* if (num2 != 0) at line 35.
T1_QuotientPrinted == mem[1].num2 # 0

\* Mutant: on a zero divisor the program asks for the operands again.
T1_PrintDivision_Retry ==
    IF T1_QuotientPrinted
    THEN Printf(1, 35, Printed("Division: %d ÷ %d = %.2f\n",
                     <<IntText(1, "num1"), IntText(1, "num2"),
                       FloatText(1, "quotient")>>), 41)
    ELSE Printf(1, 35, Printed("Division: Cannot divide by zero!\n", <<>>), 13)

T1_PrintDivision ==
    IF T1_QuotientPrinted
    THEN Printf(1, 35, Printed("Division: %d ÷ %d = %.2f\n",
                     <<IntText(1, "num1"), IntText(1, "num2"),
                       FloatText(1, "quotient")>>), 41)
    ELSE Printf(1, 35, Printed("Division: Cannot divide by zero!\n", <<>>), 41)

\* Mutant: a zero divisor is reported through the exit status.
T1_Return_Failure == Return(1, 41, IF mem[1].num2 = 0 THEN 1 ELSE 0, 42)

T1_Return == Return(1, 41, 0, 42)

Main1 ==
    \/ T1_Title
    \/ T1_Prompt1
    \/ T1_Read1
    \/ T1_Prompt2
    \/ T1_Read2
    \/ T1_Sum
    \/ T1_Difference
    \/ T1_Product
    \/ T1_Quotient
    \/ T1_Header
    \/ T1_PrintSum
    \/ T1_PrintDifference
    \/ T1_PrintProduct
    \/ T1_PrintDivision
    \/ T1_Return

(***************************************************************************)
(* Program 2: test2.c.  The same steps without a title line, with other    *)
(* prompts and labels, a float local named division, and both operands of  *)
(* the division cast to float.                                             *)
(***************************************************************************)
T2_Start == 9

T2_End == 38

T2_Prompt1 == Printf(2, 9, Printed("Enter first number: ", <<>>), 10)

T2_Read1 == Scanf(2, 10, "num1", 12)

T2_Prompt2 == Printf(2, 12, Printed("Enter second number: ", <<>>), 13)

T2_Read2 == Scanf(2, 13, "num2", 16)

T2_Sum ==
    Assign(2, 16, "sum", AddInt(mem[2].num1, mem[2].num2), {"num1", "num2"}, 17)

\* Mutant: the operands of the subtraction are swapped.
T2_Difference_Swapped ==
    Assign(2, 17, "difference", SubInt(mem[2].num2, mem[2].num1), {"num1", "num2"}, 18)

T2_Difference ==
    Assign(2, 17, "difference", SubInt(mem[2].num1, mem[2].num2), {"num1", "num2"}, 18)

T2_Product ==
    Assign(2, 18, "product", MulInt(mem[2].num1, mem[2].num2), {"num1", "num2"}, 21)

\* if (num2 != 0) at line 21.
T2_DivisorNonZero == mem[2].num2 # 0

\* division = (float)num1 / (float)num2: both operands are cast to float
\* and the two floats x and y are divided.
T2_Division ==
    /\ pc[2] = 21
    /\ IF T2_DivisorNonZero
       THEN \E x \in {IntToFloat(mem[2].num1)}, y \in {IntToFloat(mem[2].num2)} :
               Assign(2, 21, "division", FloatDiv(x, y), {"num1", "num2"}, 26)
       ELSE Skip(2, 21, 26)

T2_Header == Printf(2, 26, Printed("\nResults:\n", <<>>), 27)

T2_PrintSum ==
    Printf(2, 27, Printed("%d + %d = %d\n",
                          <<IntText(2, "num1"), IntText(2, "num2"),
                            IntText(2, "sum")>>), 28)

T2_PrintDifference ==
    Printf(2, 28, Printed("%d - %d = %d\n",
                          <<IntText(2, "num1"), IntText(2, "num2"),
                            IntText(2, "difference")>>), 29)

T2_PrintProduct ==
    Printf(2, 29, Printed("%d * %d = %d\n",
                          <<IntText(2, "num1"), IntText(2, "num2"),
                            IntText(2, "product")>>), 31)

\* Mutant: the guard of the print is num2 > 0.
T2_DivisionPrinted_Positive == mem[2].num2 > 0

\* if (num2 != 0) at line 31.
T2_DivisionPrinted == mem[2].num2 # 0

T2_PrintDivision ==
    IF T2_DivisionPrinted
    THEN Printf(2, 31, Printed("%d / %d = %.2f\n",
                     <<IntText(2, "num1"), IntText(2, "num2"),
                       FloatText(2, "division")>>), 37)
    ELSE Printf(2, 31, Printed("Division by zero is undefined\n", <<>>), 37)

T2_Return == Return(2, 37, 0, 38)

Main2 ==
    \/ T2_Prompt1
    \/ T2_Read1
    \/ T2_Prompt2
    \/ T2_Read2
    \/ T2_Sum
    \/ T2_Difference
    \/ T2_Product
    \/ T2_Division
    \/ T2_Header
    \/ T2_PrintSum
    \/ T2_PrintDifference
    \/ T2_PrintProduct
    \/ T2_PrintDivision
    \/ T2_Return

(***************************************************************************)
(* The system: both processes started, nothing read, printed or assigned.  *)
(* The locals are uninitialized: each program is entered in either of its  *)
(* two frames, independently of the other, and assigned[p] says which      *)
(* locals the program has written.                                         *)
(***************************************************************************)
Init ==
    /\ input \in Inputs
    /\ pos = [p \in Progs |-> 0]
    /\ pc = [p \in Progs |-> IF p = 1 THEN T1_Start ELSE T2_Start]
    /\ \E zero \in [Progs -> BOOLEAN] :
           /\ mem = [p \in Progs |-> IF p = 1 THEN Locals1(zero[1]) ELSE Locals2(zero[2])]
           /\ unknown = [p \in Progs |-> IF p = 1 THEN Open1(zero[1]) ELSE Open2(zero[2])]
    /\ assigned = [p \in Progs |-> {}]
    /\ io = [p \in Progs |-> <<>>]
    /\ status = [p \in Progs |-> <<>>]

Next == Main1 \/ Main2

Spec == Init /\ [][Next]_vars

\* Each process runs until it exits: the two are independent processes, and
\* no statement can block, since stdin is complete when they start.
FairSpec == Spec /\ WF_vars(Main1) /\ WF_vars(Main2)

(***************************************************************************)
(* Exact arithmetic for stating the properties: natural numbers of any     *)
(* size as sequences of base-10000 limbs, least significant first, with    *)
(* no leading zero limb (zero is the empty sequence).                      *)
(***************************************************************************)
Limb == 100 * 100

RECURSIVE BigFromNat(_)
BigFromNat(n) == IF n = 0 THEN <<>> ELSE <<n % Limb>> \o BigFromNat(n \div Limb)

\* x + c for a big x and 0 <= c < 2^30.
RECURSIVE BigAddSmall(_, _)
BigAddSmall(x, c) ==
    IF c = 0 THEN x
    ELSE IF x = <<>> THEN BigFromNat(c)
    ELSE <<(x[1] + c) % Limb>> \o BigAddSmall(Tail(x), (x[1] + c) \div Limb)

\* x * k + c for a big x, 0 <= k <= Limb and 0 <= c < 2^30.
RECURSIVE BigMulAdd(_, _, _)
BigMulAdd(x, k, c) ==
    IF x = <<>> THEN BigFromNat(c)
    ELSE <<(x[1] * k + c) % Limb>> \o BigMulAdd(Tail(x), k, (x[1] * k + c) \div Limb)

RECURSIVE BigAddC(_, _, _)
BigAddC(x, y, c) ==
    IF x = <<>> THEN BigAddSmall(y, c)
    ELSE IF y = <<>> THEN BigAddSmall(x, c)
    ELSE <<(x[1] + y[1] + c) % Limb>>
         \o BigAddC(Tail(x), Tail(y), (x[1] + y[1] + c) \div Limb)

BigAdd(x, y) == BigAddC(x, y, 0)

\* Drops the zero limbs a product by zero leaves at the top.
RECURSIVE BigTrim(_)
BigTrim(x) ==
    IF x = <<>> THEN x
    ELSE IF x[Len(x)] = 0 THEN BigTrim(SubSeq(x, 1, Len(x) - 1)) ELSE x

RECURSIVE BigMul(_, _)
BigMul(x, y) ==
    IF y = <<>> \/ x = <<>> THEN <<>>
    ELSE BigAdd(BigTrim(BigMulAdd(x, y[1], 0)),
                IF Tail(y) = <<>> THEN <<>> ELSE <<0>> \o BigMul(x, Tail(y)))

RECURSIVE BigLeq(_, _)
BigLeq(x, y) ==
    IF Len(x) # Len(y) THEN Len(x) < Len(y)
    ELSE IF x = <<>> THEN TRUE
    ELSE IF x[Len(x)] # y[Len(y)] THEN x[Len(x)] < y[Len(y)]
    ELSE BigLeq(SubSeq(x, 1, Len(x) - 1), SubSeq(y, 1, Len(y) - 1))

\* |a| for an int a (|INT_MIN| = 2^31 included).
BigAbs(a) ==
    IF a = INT_MIN THEN BigAddSmall(BigFromNat(INT_MAX), 1)
    ELSE BigFromNat(IF a < 0 THEN -a ELSE a)

\* The number a sequence of decimal digits (most significant first) writes.
RECURSIVE BigFromDigits(_)
BigFromDigits(ds) ==
    IF ds = <<>> THEN <<>>
    ELSE BigTrim(BigMulAdd(BigFromDigits(SubSeq(ds, 1, Len(ds) - 1)), 10, ds[Len(ds)]))

\* s = a + b in the integers, for ints a, b, s.
ExactSum(a, b, s) ==
    IF (a >= 0 /\ b <= 0) \/ (a <= 0 /\ b >= 0) THEN s = a + b
    ELSE IF a > 0 THEN s >= a /\ s - a = b
    ELSE s <= a /\ s - a = b

\* d = a - b in the integers, for ints a, b, d.
ExactDifference(a, b, d) == ExactSum(d, b, a)

\* r = a * b in the integers, for ints a, b, r.
ExactProduct(a, b, r) ==
    /\ BigMul(BigAbs(a), BigAbs(b)) = BigAbs(r)
    /\ (r > 0) = ((a > 0 /\ b > 0) \/ (a < 0 /\ b < 0))
    /\ (r < 0) = ((a > 0 /\ b < 0) \/ (a < 0 /\ b > 0))

(***************************************************************************)
(* Reading a state: where each program is and what it has printed.         *)
(***************************************************************************)
\* The line of p's return statement: reached once the whole report is out.
ReturnLine(p) == IF p = 1 THEN 41 ELSE 37

\* The line of p's first report printf (the header of the results block).
HeaderLine(p) == IF p = 1 THEN 30 ELSE 26

\* The line of p's if before the division: the three int results are stored.
DivideLine(p) == IF p = 1 THEN 25 ELSE 21

EndLine(p) == IF p = 1 THEN T1_End ELSE T2_End

\* The name of p's float local.
QuotientVar(p) == IF p = 1 THEN "quotient" ELSE "division"

HeaderText(p) == IF p = 1 THEN "\n=== Results ===\n" ELSE "\nResults:\n"

ZeroDivisorMessage(p) ==
    IF p = 1 THEN "Division: Cannot divide by zero!\n"
    ELSE "Division by zero is undefined\n"

IsPrintf(e) == e.op = "printf"

IsScanf(e) == e.op = "scanf"

\* The positions in p's transcript of the entries satisfying Test.
Where(p, Test(_)) == {i \in 1..Len(io[p]) : Test(io[p][i])}

IsHeader1(e) == IsPrintf(e) /\ e.fmt = HeaderText(1)

IsHeader2(e) == IsPrintf(e) /\ e.fmt = HeaderText(2)

HeaderAt(p) == IF p = 1 THEN Where(1, IsHeader1) ELSE Where(2, IsHeader2)

\* The results block printed so far: the entries after the header.
ResultsBlock(p) ==
    IF HeaderAt(p) = {} THEN <<>>
    ELSE LET h == CHOOSE i \in HeaderAt(p) : TRUE
         IN  SubSeq(io[p], h + 1, Len(io[p]))

\* A result line for three ints: "%d <op> %d = %d".
IsIntLine(e) == IsPrintf(e) /\ Len(e.args) = 3 /\ \A i \in 1..3 : e.args[i].frac = <<>>

\* The quotient line: two ints and a number with two decimals (or, of an
\* open float, the text that stands for one).
IsQuotientLine(e) ==
    /\ IsPrintf(e)
    /\ Len(e.args) = 3
    /\ e.args[1].frac = <<>>
    /\ e.args[2].frac = <<>>
    /\ Len(e.args[3].frac) = 2 \/ e.args[3] = AnyF

\* The int a printed text without fraction writes.
RECURSIVE MinusDigits(_)
MinusDigits(ds) ==
    IF ds = <<>> THEN 0
    ELSE MinusDigits(SubSeq(ds, 1, Len(ds) - 1)) * 10 - ds[Len(ds)]

ParseD(t) == IF t.neg THEN MinusDigits(t.int) ELSE -MinusDigits(t.int)

IsZeroDivisorLine(p, e) == IsPrintf(e) /\ e.args = <<>> /\ e.fmt = ZeroDivisorMessage(p)

\* Both operands were read from stdin by p's two scanf calls.
OperandsRead(p) == {"num1", "num2"} \subseteq assigned[p]

\* C1. For all ints a and b read as num1 and num2, the sum, difference and
\* product the program stores and reports are a + b, a - b and a * b in the
\* integers, in both programs and also when b = 0.
C1_ResultsAreExact ==
    \A p \in Progs :
        /\ OperandsRead(p) /\ pc[p] >= DivideLine(p) =>
              /\ ExactSum(mem[p].num1, mem[p].num2, mem[p].sum)
              /\ ExactDifference(mem[p].num1, mem[p].num2, mem[p].difference)
              /\ ExactProduct(mem[p].num1, mem[p].num2, mem[p].product)
        /\ OperandsRead(p) /\ pc[p] >= ReturnLine(p) =>
              /\ ExactSum(mem[p].num1, mem[p].num2, ParseD(ResultsBlock(p)[1].args[3]))
              /\ ExactDifference(mem[p].num1, mem[p].num2,
                                 ParseD(ResultsBlock(p)[2].args[3]))
              /\ ExactProduct(mem[p].num1, mem[p].num2,
                              ParseD(ResultsBlock(p)[3].args[3]))

\* The text t = [neg, int, frac] of a "%.2f" conversion writes a number
\* within half a hundredth plus a relative 2^-22 (three roundings to 24
\* bits: of a, of b and of the quotient) of the real quotient a / b, and
\* carries its sign.  With P the hundredths t writes, A = |a| and B = |b|:
\*     2^23 * |P * B - 100 * A|  <=  2^22 * B + 200 * A.
WritesQuotient(t, a, b) ==
    LET A == BigAbs(a)
        B == BigAbs(b)
        P == BigFromDigits(t.int \o t.frac)
        X == BigMul(BigFromNat(2^23), BigMul(P, B))
        Y == BigMul(BigFromNat(2^23), BigMulAdd(A, 100, 0))
        T == BigAdd(BigMul(BigFromNat(2^22), B), BigMulAdd(A, 200, 0))
    IN  /\ Len(t.frac) = 2
        /\ BigLeq(X, BigAdd(Y, T))
        /\ BigLeq(Y, BigAdd(X, T))
        /\ ((a < 0 /\ b > 0) \/ (a > 0 /\ b < 0)) => t.neg
        /\ ((a > 0 /\ b > 0) \/ (a < 0 /\ b < 0)) => ~t.neg

\* C2. For all ints a and b read as num1 and num2 with b # 0 the program
\* prints, as the fourth result line, a / b computed in floating point (not
\* the truncated integer quotient) with two decimals: 10, 5 gives 2.00 and
\* -4, 2 gives -2.00.
C2_QuotientIsFloatDivision ==
    \A p \in Progs :
        (pc[p] >= ReturnLine(p) /\ OperandsRead(p) /\ mem[p].num2 # 0) =>
            LET e == ResultsBlock(p)[4]
            IN  /\ IsQuotientLine(e)
                /\ ParseD(e.args[1]) = mem[p].num1
                /\ ParseD(e.args[2]) = mem[p].num2
                /\ WritesQuotient(e.args[3], mem[p].num1, mem[p].num2)
                /\ (mem[p].num1 = 10 /\ mem[p].num2 = 5) =>
                       e.args[3] = Number(FALSE, <<2>>, <<0, 0>>)
                /\ (mem[p].num1 = -4 /\ mem[p].num2 = 2) =>
                       e.args[3] = Number(TRUE, <<2>>, <<0, 0>>)

\* Both programs have printed 7 / 2 = 3.50, where integer division gives 3.
C2_Witness ==
    \A p \in Progs :
        /\ pc[p] >= ReturnLine(p)
        /\ OperandsRead(p)
        /\ mem[p].num1 = 7
        /\ mem[p].num2 = 2
        /\ ResultsBlock(p)[4].args[3] = Number(FALSE, <<3>>, <<5, 0>>)

Prompt1Text(p) == IF p = 1 THEN "Enter the first number: " ELSE "Enter first number: "

Prompt2Text(p) == IF p = 1 THEN "Enter the second number: " ELSE "Enter second number: "

\* The formats of the addition, subtraction and multiplication lines.
IntLineFormats(p) ==
    IF p = 1
    THEN <<"Addition: %d + %d = %d\n", "Subtraction: %d - %d = %d\n",
           "Multiplication: %d × %d = %d\n">>
    ELSE <<"%d + %d = %d\n", "%d - %d = %d\n", "%d * %d = %d\n">>

\* The lines of p's two scanf calls and of its if around the division print.
Read1Line(p) == IF p = 1 THEN 14 ELSE 10

Read2Line(p) == IF p = 1 THEN 17 ELSE 13

PrintDivisionLine(p) == IF p = 1 THEN 35 ELSE 31

\* Positions in p's transcript, by kind of entry.
Prompt1At(p) == {i \in 1..Len(io[p]) : IsPrintf(io[p][i]) /\ io[p][i].fmt = Prompt1Text(p)}

Prompt2At(p) == {i \in 1..Len(io[p]) : IsPrintf(io[p][i]) /\ io[p][i].fmt = Prompt2Text(p)}

Read1At(p) == {i \in 1..Len(io[p]) : IsScanf(io[p][i]) /\ io[p][i].args[1] = "num1"}

Read2At(p) == {i \in 1..Len(io[p]) : IsScanf(io[p][i]) /\ io[p][i].args[1] = "num2"}

QuotientAt(p) == {i \in 1..Len(io[p]) : IsQuotientLine(io[p][i])}

ZeroDivisorAt(p) == {i \in 1..Len(io[p]) : IsZeroDivisorLine(p, io[p][i])}

\* The positions of the report: the header and everything after it.
ReportAt(p) == {i \in 1..Len(io[p]) : \E h \in HeaderAt(p) : h <= i}

Exited(p) == pc[p] = EndLine(p)

\* C3. When num2 = 0 the division is skipped: the report ends with the fixed
\* zero-divisor message and holds no quotient, and the sum, difference and
\* product lines are printed all the same; for a first operand a read from
\* stdin they show a, a and 0 (7, 0 gives 7, 7, 0).
C3_ZeroDivisorMessage ==
    \A p \in Progs :
        (pc[p] >= ReturnLine(p) /\ mem[p].num2 = 0) =>
            LET b == ResultsBlock(p)
            IN  /\ Len(b) = 4
                /\ IsZeroDivisorLine(p, b[4])
                /\ QuotientAt(p) = {}
                /\ QuotientVar(p) \notin assigned[p]
                /\ \A i \in 1..3 : IsIntLine(b[i]) /\ b[i].fmt = IntLineFormats(p)[i]
                /\ "num1" \in assigned[p] =>
                       /\ ParseD(b[1].args[3]) = mem[p].num1
                       /\ ParseD(b[2].args[3]) = mem[p].num1
                       /\ ParseD(b[3].args[3]) = 0

\* Both programs have reported on the input 7, 0.
C3_Witness ==
    \A p \in Progs :
        /\ Exited(p)
        /\ OperandsRead(p)
        /\ mem[p].num1 = 7
        /\ mem[p].num2 = 0
        /\ IsZeroDivisorLine(p, ResultsBlock(p)[4])
        /\ ParseD(ResultsBlock(p)[1].args[3]) = 7
        /\ ParseD(ResultsBlock(p)[3].args[3]) = 0

\* C4. Every run terminates with exit code 0: whatever stdin holds, also
\* with num2 = 0, each program reaches the end of main, and the only status
\* a program ever exits with is 0.
C4_ExitsWithZero ==
    /\ [](\A p \in Progs : /\ status[p] \in {<<>>, <<0>>}
                           /\ Exited(p) <=> status[p] = <<0>>)
    /\ <>(\A p \in Progs : Exited(p) /\ status[p] = <<0>>)

\* Both programs have exited with 0 after reading a zero divisor.
C4_Witness ==
    \A p \in Progs :
        Exited(p) /\ status[p] = <<0>> /\ OperandsRead(p) /\ mem[p].num2 = 0

\* C5. The results block is exactly four lines: addition, subtraction,
\* multiplication, then one division line, which is the quotient line iff
\* num2 # 0 and the zero-divisor message otherwise; never both or neither.
C5_FourResultLines ==
    \A p \in Progs :
        LET b == ResultsBlock(p)
        IN  /\ Len(b) <= 4
            /\ Cardinality(QuotientAt(p) \cup ZeroDivisorAt(p)) <= 1
            /\ pc[p] >= ReturnLine(p) =>
                  /\ Len(b) = 4
                  /\ \A i \in 1..3 : IsIntLine(b[i]) /\ b[i].fmt = IntLineFormats(p)[i]
                  /\ IsQuotientLine(b[4]) <=> mem[p].num2 # 0
                  /\ IsZeroDivisorLine(p, b[4]) <=> mem[p].num2 = 0
                  /\ Cardinality(QuotientAt(p) \cup ZeroDivisorAt(p)) = 1

\* Both programs have printed four lines ending in a quotient, for a
\* negative divisor.
C5_Witness ==
    \A p \in Progs :
        /\ Exited(p)
        /\ OperandsRead(p)
        /\ mem[p].num2 < 0
        /\ Len(ResultsBlock(p)) = 4
        /\ IsQuotientLine(ResultsBlock(p)[4])

\* Every position of T has a position of S before it.
Precedes(S, T) == \A j \in T : \E i \in S : i < j

\* C6. The events of a run are ordered: prompt for num1, read of num1,
\* prompt for num2, read of num2; no result is computed or printed before
\* both reads, and the report comes after all prompts.
C6_PromptsReadsThenResults ==
    \A p \in Progs :
        /\ Precedes(Prompt1At(p), Read1At(p))
        /\ Precedes(Read1At(p), Prompt2At(p))
        /\ Precedes(Prompt2At(p), Read2At(p))
        /\ Precedes(Read2At(p), ReportAt(p))
        /\ \A i \in ReportAt(p) :
              \A j \in Prompt1At(p) \cup Prompt2At(p) \cup Read1At(p) \cup Read2At(p) : j < i
        /\ assigned[p] \cap {"sum", "difference", "product", QuotientVar(p)} # {} =>
              Read1At(p) # {} /\ Read2At(p) # {}

\* Program 1 has computed and printed a whole report after both reads.
C6_Witness ==
    /\ Exited(1)
    /\ OperandsRead(1)
    /\ Prompt1At(1) # {} /\ Read1At(1) # {} /\ Prompt2At(1) # {} /\ Read2At(1) # {}
    /\ Cardinality(ReportAt(1)) = 5
    /\ {"sum", "difference", "product", "quotient"} \subseteq assigned[1]

\* 1 once p has passed the line, 0 before.
OnceAfter(p, line) == IF pc[p] > line THEN 1 ELSE 0

\* C7. A run is one straight-line pass: each operand is read exactly once,
\* each prompt printed exactly once, one report printed, then the process
\* exits; control never moves back to an earlier line, whatever the input.
C7_SingleStraightLinePass ==
    /\ [](\A p \in Progs :
             /\ Cardinality(Prompt1At(p)) = OnceAfter(p, Read1Line(p) - 1)
             /\ Cardinality(Read1At(p)) = OnceAfter(p, Read1Line(p))
             /\ Cardinality(Prompt2At(p)) = OnceAfter(p, Read2Line(p) - 1)
             /\ Cardinality(Read2At(p)) = OnceAfter(p, Read2Line(p))
             /\ Cardinality(HeaderAt(p)) = OnceAfter(p, HeaderLine(p))
             /\ pos[p] <= 2
             /\ Exited(p) => /\ Len(ResultsBlock(p)) = 4
                             /\ ReportAt(p) = (Len(io[p]) - 4) .. Len(io[p])
                             /\ status[p] # <<>>)
    /\ [][\A p \in Progs :
             /\ pc'[p] >= pc[p]
             /\ Exited(p) => /\ pc'[p] = pc[p]
                             /\ io'[p] = io[p]
                             /\ mem'[p] = mem[p]]_vars

\* Both programs have exited after one report on a zero divisor, the case
\* in which a retry could be expected.
C7_Witness ==
    \A p \in Progs :
        /\ Exited(p)
        /\ mem[p].num2 = 0
        /\ Cardinality(Read1At(p)) = 1
        /\ Cardinality(Read2At(p)) = 1
        /\ Cardinality(HeaderAt(p)) = 1

\* The text t is what "%d" writes for the value p's local var holds now:
\* the int itself, or for an open value the text that stands for any.
Shows(t, p, var) ==
    IF var \in unknown[p] THEN t = AnyD ELSE t.word = "" /\ ParseD(t) = mem[p][var]

\* A step leaves p's local var as it is: the same value, open or not.
Keeps(p, var) ==
    /\ mem'[p][var] = mem[p][var]
    /\ (var \in unknown'[p]) <=> (var \in unknown[p])

\* C8. num1 and num2 do not change after they are read, nor sum, difference
\* and product after they are computed; the report prints exactly these
\* values (for operands read from stdin, the ints read and the ints stored),
\* and the division branch changes none of the five.
C8_OperandsAndResultsImmutable ==
    /\ [](\A p \in Progs :
             pc[p] >= ReturnLine(p) =>
                LET b == ResultsBlock(p)
                IN  /\ \A i \in 1..4 : b[i].args # <<>> =>
                          /\ Shows(b[i].args[1], p, "num1")
                          /\ Shows(b[i].args[2], p, "num2")
                    /\ Shows(b[1].args[3], p, "sum")
                    /\ Shows(b[2].args[3], p, "difference")
                    /\ Shows(b[3].args[3], p, "product")
                    /\ OperandsRead(p) =>
                          /\ \A i \in 1..4 : b[i].args # <<>> =>
                                /\ ParseD(b[i].args[1]) = mem[p].num1
                                /\ ParseD(b[i].args[2]) = mem[p].num2
                          /\ ParseD(b[1].args[3]) = mem[p].sum
                          /\ ParseD(b[2].args[3]) = mem[p].difference
                          /\ ParseD(b[3].args[3]) = mem[p].product)
    /\ [][\A p \in Progs :
             /\ pc[p] > Read1Line(p) => Keeps(p, "num1")
             /\ pc[p] > Read2Line(p) => Keeps(p, "num2")
             /\ "sum" \in assigned[p] => Keeps(p, "sum")
             /\ "difference" \in assigned[p] => Keeps(p, "difference")
             /\ "product" \in assigned[p] => Keeps(p, "product")]_vars

\* Both programs have taken the division branch and printed their report.
C8_Witness ==
    \A p \in Progs :
        /\ Exited(p)
        /\ OperandsRead(p)
        /\ mem[p].num2 # 0
        /\ QuotientVar(p) \in assigned[p]
        /\ ParseD(ResultsBlock(p)[1].args[3]) = mem[p].sum

\* The guard of p's division print.
PrintsQuotient(p) == IF p = 1 THEN T1_QuotientPrinted ELSE T2_DivisionPrinted

\* C9. The float local is left unset when num2 = 0 and is never read while
\* unset: wherever the print branch is about to read it, and wherever a
\* quotient has been printed, it was assigned earlier in the run, and what
\* was printed is the text of its value.
C9_QuotientNeverReadUnset ==
    \A p \in Progs :
        /\ (pc[p] = PrintDivisionLine(p) /\ PrintsQuotient(p)) =>
              QuotientVar(p) \in assigned[p]
        /\ pc[p] > DivideLine(p) =>
              (QuotientVar(p) \in assigned[p] <=> mem[p].num2 # 0)
        /\ pc[p] <= DivideLine(p) => QuotientVar(p) \notin assigned[p]
        /\ \A i \in QuotientAt(p) :
              /\ QuotientVar(p) \in assigned[p]
              /\ io[p][i].args[3] = FloatText(p, QuotientVar(p))

\* Program 1 is about to read its quotient for a negative divisor, and
\* program 2 has printed its own.
C9_Witness ==
    /\ pc[1] = PrintDivisionLine(1)
    /\ mem[1].num2 < 0
    /\ "quotient" \in assigned[1]
    /\ QuotientAt(2) # {}
    /\ "division" \in assigned[2]

\* stdin holds two ints.
TwoInts == Len(input) = 2 /\ input[1].kind = "int" /\ input[2].kind = "int"

\* What the entries of a transcript say, apart from the text of the formats.
Content(t) == [i \in 1..Len(t) |-> [args |-> t[i].args, op |-> t[i].op]]

\* C10. On the same two ints the two programs behave alike up to the text
\* of prompts and labels: the same sum, difference, product and quotient,
\* the same division branch, the same result lines in the same order, the
\* same exit status.
C10_ProgramsEquivalent ==
    TwoInts =>
        /\ (pc[1] >= HeaderLine(1) /\ pc[2] >= HeaderLine(2)) =>
              /\ \A v \in {"num1", "num2", "sum", "difference", "product"} :
                    mem[1][v] = mem[2][v]
              /\ "quotient" \in assigned[1] <=> "division" \in assigned[2]
              /\ "quotient" \in assigned[1] => mem[1].quotient = mem[2].division
        /\ (Exited(1) /\ Exited(2)) =>
              /\ Content(ResultsBlock(1)) = Content(ResultsBlock(2))
              /\ Len(ResultsBlock(1)) = 4
              /\ QuotientAt(1) = {} <=> QuotientAt(2) = {}
              /\ ZeroDivisorAt(1) = {} <=> ZeroDivisorAt(2) = {}
              /\ Content(SubSeq(io[1], 2, Len(io[1]))) = Content(io[2])
              /\ status[1] = status[2]

\* Both programs have exited on the input -4, 2.
C10_Witness ==
    /\ TwoInts
    /\ input[1].val = -4
    /\ input[2].val = 2
    /\ Exited(1) /\ Exited(2)
    /\ QuotientAt(1) # {} /\ QuotientAt(2) # {}

====
